---- MODULE Spec2Model ----
(***************************************************************************)
(* One call of swap_clothing (src/start.py), as a state machine.           *)
(*                                                                         *)
(* Strings are sequences of tokens: a fixed message of the source is one   *)
(* token, "+" is \o, the empty string is << >>.  None is the string        *)
(* "None".  The filesystem is the set fs of existing temporary files; the  *)
(* remote API is the log `calls` of the calls made to it.                  *)
(***************************************************************************)
EXTENDS Integers, Sequences, FiniteSets, TLC

\* ---------------------------------------------------------------- bounds
MaxParts == 3
MaxWarnings == 1

\* ------------------------------------------------------------- constants
None == "None"
NL == <<"\n">>
MsgBothImages == <<"Please upload both images.">>
MsgNoKey == <<"GEMINI_API_KEY not found. Please set it in your environment.">>
MsgInvalid == <<"The model did not generate a valid response. Try again.">>
MsgImgError == <<"Error processing image: ">>

NoExc == [msg |-> "", type |-> ""]
NoRet == [set |-> FALSE, image |-> None, text |-> << >>]
NoResponse == [kind |-> "unset", parts |-> << >>]

\* ------------------------------------------------------ inputs of a call
ImageInputs == {None, "image"}
\* line 62 sets api_key to '' and asks for it to be replaced by the key: the
\* credential is configuration, empty as shipped or set
ApiKeys == {<< >>, <<"key">>}
\* part.text: any str, the empty one included (it is not None)
Texts == {<< >>, <<"a">>, <<"b">>}

\* inline_data.data: bytes, or a str that base64.b64decode has to decode
DataValues ==
  { [isbytes |-> TRUE, val |-> "png1"],
    [isbytes |-> TRUE, val |-> "png2"],
    [isbytes |-> TRUE, val |-> "junk"],
    [isbytes |-> FALSE, val |-> "b64:png1"],
    [isbytes |-> FALSE, val |-> "b64:png2"],
    [isbytes |-> FALSE, val |-> "b64:junk"],
    [isbytes |-> FALSE, val |-> "!!"] }
NoData == [isbytes |-> TRUE, val |-> ""]

TextPart(t) == [hasText |-> TRUE, text |-> t, hasData |-> FALSE, data |-> NoData]
InlinePart(d) == [hasText |-> FALSE, text |-> << >>, hasData |-> TRUE, data |-> d]
EmptyPart == [hasText |-> FALSE, text |-> << >>, hasData |-> FALSE, data |-> NoData]
\* a part carrying both: line 147 takes it as text, the elif of line 149 is not reached
BothPart == [hasText |-> TRUE, text |-> <<"b">>, hasData |-> TRUE,
             data |-> [isbytes |-> TRUE, val |-> "png1"]]
Parts ==
  {TextPart(t) : t \in Texts} \cup {InlinePart(d) : d \in DataValues}
    \cup {EmptyPart, BothPart}

PartSeqs == UNION {[1..n -> Parts] : n \in 0..MaxParts}

\* what client.models.generate_content can return
Responses ==
  { [kind |-> k, parts |-> << >>] : k \in {"none", "no_candidates", "no_content", "parts_none"} }
  \cup { [kind |-> "parts", parts |-> ps] : ps \in PartSeqs }

VARIABLES
  person_image, clothing_image, api_key,
  pc, client, temp_files, uploaded_files, first_upload,
  output_image, output_text, warning_list,
  response, part_index, cleanup_index,
  exc, ret, outcome, result,
  fs, created, calls

vars == << person_image, clothing_image, api_key,
           pc, client, temp_files, uploaded_files, first_upload,
           output_image, output_text, warning_list,
           response, part_index, cleanup_index,
           exc, ret, outcome, result,
           fs, created, calls >>

inputs == << person_image, clothing_image, api_key >>
locals == << client, temp_files, uploaded_files, first_upload,
             output_image, output_text, warning_list,
             response, part_index, cleanup_index >>
final == << outcome, result >>
world == << fs, created, calls >>

Init ==
  /\ person_image \in ImageInputs
  /\ clothing_image \in ImageInputs
  /\ api_key \in ApiKeys
  /\ pc = "check_images"
  /\ client = None
  /\ temp_files = << >>
  /\ uploaded_files = << >>
  /\ first_upload = None
  /\ output_image = None
  /\ output_text = << >>
  /\ warning_list = << >>
  /\ response = NoResponse
  /\ part_index = 1
  /\ cleanup_index = 1
  /\ exc = NoExc
  /\ ret = NoRet
  /\ outcome = "running"
  /\ result = NoRet
  /\ fs = {}
  /\ created = {}
  /\ calls = << >>


\* ------------------------------------------------------------- exceptions
ClientError == [msg |-> "client construction failed", type |-> "ValueError"]
SaveError == [msg |-> "cannot write mode RGBA as JPEG", type |-> "OSError"]
UploadError == [msg |-> "upload failed", type |-> "ClientError"]
GenerateError == [msg |-> "generation failed", type |-> "ServerError"]
PartsNoneError == [msg |-> "'NoneType' object is not iterable", type |-> "TypeError"]
B64Error == [msg |-> "Incorrect padding", type |-> "Error"]
OpenError == [msg |-> "cannot identify image file", type |-> "UnidentifiedImageError"]
UnlinkError == [msg |-> "unlink failed", type |-> "PermissionError"]

\* ---------------------------------------------------------------- helpers
Range(s) == {s[k] : k \in 1..Len(s)}

Call(op, who, ok, err) == [op |-> op, who |-> who, ok |-> ok, err |-> err]

\* tempfile.NamedTemporaryFile(suffix=..., delete=False): a fresh name
NewTempFile(suffix) == [n |-> Cardinality(created) + 1, suffix |-> suffix]

\* a warning the libraries may emit during a remote call; catch_warnings(record=True)
\* appends it to warning_list
Warned(wl) == {wl} \cup (IF Len(wl) < MaxWarnings THEN {Append(wl, "w")} ELSE {})

\* line 59 with the second operand of the `or` lost
ImagesMissingPersonOnly == person_image = None

\* line 59
ImagesMissing == person_image = None \/ clothing_image = None

\* line 63 with the test lost
KeyMissingIgnored == FALSE

\* line 63
KeyMissing == api_key = << >>

\* base64.b64decode
B64Valid(val) == val \in {"b64:png1", "b64:png2", "b64:junk"}
B64Decode(val) ==
  CASE val = "b64:png1" -> "png1"
    [] val = "b64:png2" -> "png2"
    [] val = "b64:junk" -> "junk"

\* lines 151-153: the bytes written to the .png file, when b64decode does not throw
CanDecode(d) == d.isbytes \/ B64Valid(d.val)
ImageBytes(d) == IF d.isbytes THEN d.val ELSE B64Decode(d.val)

\* Image.open(...).copy()
CanOpen(bytes) == bytes \in {"png1", "png2"}
ImageOpen(bytes) == IF bytes = "png1" THEN "image1" ELSE "image2"

\* line 148 without the newline
TextOfBare(part) == part.text

\* line 148
TextOf(part) == part.text \o NL

\* line 161
ImageErrorText(e) == MsgImgError \o <<e.msg>> \o NL

\* line 158 guarded by `if output_image is None`
AssignImageOnce(old, new) == IF old = None THEN new ELSE old

\* line 158
AssignImage(old, new) == new

RECURSIVE WarningLines(_)
WarningLines(wl) ==
  IF wl = << >> THEN << >>
  ELSE <<"\n- Warning: ", Head(wl)>> \o WarningLines(Tail(wl))

\* lines 166-169
ErrorDetails(e, wl) == <<"Error: ", e.msg, " | Type: ", e.type>> \o WarningLines(wl)

Raise(e) ==
  /\ exc' = e
  /\ pc' = "except"

Return(image, text) ==
  /\ ret' = [set |-> TRUE, image |-> image, text |-> text]
  /\ pc' = "finally_local"

\* ------------------------------------------------------- the try block
\* lines 59-60
CheckImages ==
  /\ pc = "check_images"
  /\ IF ImagesMissing
       THEN Return(None, MsgBothImages)
       ELSE pc' = "check_key" /\ ret' = ret
  /\ UNCHANGED << inputs, locals, exc, final, world >>

\* lines 62-64
CheckKey ==
  /\ pc = "check_key"
  /\ IF KeyMissing
       THEN Return(None, MsgNoKey)
       ELSE pc' = "make_client" /\ ret' = ret
  /\ UNCHANGED << inputs, locals, exc, final, world >>

\* line 66
MakeClient ==
  /\ pc = "make_client"
  /\ \E ok \in BOOLEAN :
       IF ok
         THEN /\ client' = "client"
              /\ calls' = Append(calls, Call("client", "-", TRUE, NoExc))
              /\ pc' = "save"
              /\ exc' = exc
         ELSE /\ client' = client
              /\ calls' = Append(calls, Call("client", "-", FALSE, ClientError))
              /\ Raise(ClientError)
  /\ UNCHANGED << inputs, temp_files, uploaded_files, first_upload, output_image,
                  output_text, warning_list, response, part_index, cleanup_index,
                  ret, final, fs, created >>

\* line 69 with the two pairs of the list swapped
StagedWhoSwapped(k) == IF k = 1 THEN "clothing" ELSE "person"

\* line 69: the image the staging loop is at, person, then clothing
StagedWho(k) == IF k = 1 THEN "person" ELSE "clothing"

\* lines 69-72, one iteration
SaveImage ==
  /\ pc = "save"
  /\ LET f == NewTempFile(".jpg")
         who == StagedWho(Len(temp_files) + 1)
     IN /\ fs' = fs \cup {f}
        /\ created' = created \cup {f}
        /\ \E ok \in BOOLEAN :
             IF ok
               THEN /\ calls' = Append(calls, Call("save", who, TRUE, NoExc))
                    /\ temp_files' = Append(temp_files, f)
                    /\ pc' = IF Len(temp_files) + 1 = 2 THEN "upload_person" ELSE "save"
                    /\ exc' = exc
               ELSE /\ calls' = Append(calls, Call("save", who, FALSE, SaveError))
                    /\ temp_files' = temp_files
                    /\ Raise(SaveError)
  /\ UNCHANGED << inputs, client, uploaded_files, first_upload, output_image,
                  output_text, warning_list, response, part_index, cleanup_index,
                  ret, final >>

\* line 75: the first element of the list display
UploadPerson ==
  /\ pc = "upload_person"
  /\ \E ok \in BOOLEAN :
       IF ok
         THEN /\ calls' = Append(calls, Call("upload", "person", TRUE, NoExc))
              /\ first_upload' = "person"
              /\ pc' = "upload_clothing"
              /\ exc' = exc
         ELSE /\ calls' = Append(calls, Call("upload", "person", FALSE, UploadError))
              /\ first_upload' = first_upload
              /\ Raise(UploadError)
  /\ UNCHANGED << inputs, client, temp_files, uploaded_files, output_image,
                  output_text, warning_list, response, part_index, cleanup_index,
                  ret, final, fs, created >>

\* lines 74-77: the second element, then the assignment to uploaded_files
UploadClothing ==
  /\ pc = "upload_clothing"
  /\ \E ok \in BOOLEAN :
       IF ok
         THEN /\ calls' = Append(calls, Call("upload", "clothing", TRUE, NoExc))
              /\ uploaded_files' = <<first_upload, "clothing">>
              /\ pc' = "generate"
              /\ exc' = exc
         ELSE /\ calls' = Append(calls, Call("upload", "clothing", FALSE, UploadError))
              /\ uploaded_files' = uploaded_files
              /\ Raise(UploadError)
  /\ UNCHANGED << inputs, client, temp_files, first_upload, output_image,
                  output_text, warning_list, response, part_index, cleanup_index,
                  ret, final, fs, created >>

\* lines 79-141: prompt, contents, config, generate_content
Generate ==
  /\ pc = "generate"
  /\ warning_list' \in Warned(warning_list)
  /\ \/ /\ calls' = Append(calls, Call("generate", "-", TRUE, NoExc))
        /\ response' \in Responses
        /\ pc' = "inspect"
        /\ exc' = exc
     \/ /\ calls' = Append(calls, Call("generate", "-", FALSE, GenerateError))
        /\ response' = response
        /\ Raise(GenerateError)
  /\ UNCHANGED << inputs, client, temp_files, uploaded_files, first_upload,
                  output_image, output_text, part_index, cleanup_index,
                  ret, final, fs, created >>

\* where the for loop of line 146 stands after k - 1 parts
LoopAt(k) == IF k > Len(response.parts) THEN "finally_local" ELSE "walk"

\* lines 143-146 and 162-163
Inspect ==
  /\ pc = "inspect"
  /\ CASE response.kind \in {"none", "no_candidates"} ->
            /\ output_text' = MsgInvalid
            /\ pc' = "finally_local"
            /\ exc' = exc
       [] response.kind = "no_content" ->
            /\ output_text' = output_text
            /\ pc' = "finally_local"
            /\ exc' = exc
       [] response.kind = "parts_none" ->
            /\ output_text' = output_text
            /\ Raise(PartsNoneError)
       [] response.kind = "parts" ->
            /\ output_text' = output_text
            /\ pc' = LoopAt(1)
            /\ exc' = exc
  /\ UNCHANGED << inputs, client, temp_files, uploaded_files, first_upload,
                  output_image, warning_list, response, part_index, cleanup_index,
                  ret, final, world >>

\* the for loop of line 146 goes on to the next part
Advance ==
  /\ part_index' = part_index + 1
  /\ pc' = LoopAt(part_index + 1)
  /\ exc' = exc

\* lines 150-161 without the inner try: the exception reaches line 165
ImageErrorEscapes(e) ==
  /\ output_text' = output_text
  /\ part_index' = part_index
  /\ Raise(e)

\* lines 160-161: the inner handler
ImageError(e) ==
  /\ output_text' = output_text \o ImageErrorText(e)
  /\ Advance

\* lines 146-161, one iteration
WalkPart ==
  /\ pc = "walk"
  /\ LET part == response.parts[part_index]
         f == NewTempFile(".png")
     IN CASE part.hasText ->
               /\ output_text' = output_text \o TextOf(part)
               /\ Advance
               /\ UNCHANGED << output_image, fs, created >>
          [] ~part.hasText /\ ~part.hasData ->
               /\ Advance
               /\ UNCHANGED << output_text, output_image, fs, created >>
          [] ~part.hasText /\ part.hasData /\ ~CanDecode(part.data) ->
               /\ ImageError(B64Error)
               /\ UNCHANGED << output_image, fs, created >>
          [] ~part.hasText /\ part.hasData /\ CanDecode(part.data)
               /\ ~CanOpen(ImageBytes(part.data)) ->
               /\ fs' = fs \cup {f}
               /\ created' = created \cup {f}
               /\ ImageError(OpenError)
               /\ output_image' = output_image
          [] ~part.hasText /\ part.hasData /\ CanDecode(part.data)
               /\ CanOpen(ImageBytes(part.data)) ->
               /\ fs' = (fs \cup {f}) \ {f}
               /\ created' = created \cup {f}
               /\ output_image' = AssignImage(output_image, ImageOpen(ImageBytes(part.data)))
               /\ output_text' = output_text
               /\ Advance
  /\ UNCHANGED << inputs, client, temp_files, uploaded_files, first_upload,
                  warning_list, response, cleanup_index, ret, final, calls >>

\* lines 165-170
Except ==
  /\ pc = "except"
  /\ Return(None, ErrorDetails(exc, warning_list))
  /\ UNCHANGED << inputs, locals, exc, final, world >>

\* --------------------------------------------------- the finally block
\* lines 173-175
CleanupLocal ==
  /\ pc = "finally_local"
  /\ fs' = fs \ Range(temp_files)
  /\ pc' = "finally_remote"
  /\ UNCHANGED << inputs, locals, exc, ret, final, created, calls >>

\* lines 176-181, one iteration: the delete is attempted, what it throws is dropped
CleanupRemote ==
  /\ pc = "finally_remote"
  /\ cleanup_index <= Len(uploaded_files)
  /\ \E ok \in BOOLEAN :
       calls' = Append(calls, Call("delete", uploaded_files[cleanup_index], ok,
                                   IF ok THEN NoExc ELSE UploadError))
  /\ cleanup_index' = cleanup_index + 1
  /\ UNCHANGED << inputs, pc, client, temp_files, uploaded_files, first_upload,
                  output_image, output_text, warning_list, response, part_index,
                  exc, ret, final, fs, created >>

\* line 182, then the pending return of the try block or line 184
Finish ==
  /\ pc = "finally_remote"
  /\ cleanup_index > Len(uploaded_files)
  /\ client' = None
  /\ outcome' = "returned"
  /\ result' = IF ret.set THEN ret
               ELSE [set |-> TRUE, image |-> output_image, text |-> output_text]
  /\ pc' = "done"
  /\ UNCHANGED << inputs, temp_files, uploaded_files, first_upload, output_image,
                  output_text, warning_list, response, part_index, cleanup_index,
                  exc, ret, world >>

Next ==
  \/ CheckImages
  \/ CheckKey
  \/ MakeClient
  \/ SaveImage
  \/ UploadPerson
  \/ UploadClothing
  \/ Generate
  \/ Inspect
  \/ WalkPart
  \/ Except
  \/ CleanupLocal
  \/ CleanupRemote
  \/ Finish

Spec == Init /\ [][Next]_vars

\* ------------------------------------------- a filesystem that can refuse
\* Spec takes os.unlink of an existing file to succeed.  SpecFault adds the runs
\* in which it throws.
\* lines 173-175 when os.unlink of the k-th staged file throws: the files before
\* it are gone, the exception leaves the finally block and the function
CleanupLocalThrows ==
  /\ pc = "finally_local"
  /\ \E k \in 1..Len(temp_files) :
       fs' = fs \ {temp_files[m] : m \in 1..(k - 1)}
  /\ exc' = UnlinkError
  /\ outcome' = "raised"
  /\ pc' = "done"
  /\ UNCHANGED << inputs, locals, ret, result, created, calls >>

\* lines 154-161 when os.unlink of line 159 throws: the image is already copied,
\* the .png file stays, the inner handler appends the error
WalkPartUnlinkThrows ==
  /\ pc = "walk"
  /\ LET part == response.parts[part_index]
         f == NewTempFile(".png")
     IN /\ ~part.hasText /\ part.hasData
        /\ CanDecode(part.data) /\ CanOpen(ImageBytes(part.data))
        /\ fs' = fs \cup {f}
        /\ created' = created \cup {f}
        /\ output_image' = AssignImage(output_image, ImageOpen(ImageBytes(part.data)))
        /\ ImageError(UnlinkError)
  /\ UNCHANGED << inputs, client, temp_files, uploaded_files, first_upload,
                  warning_list, response, cleanup_index, ret, final, calls >>

NextFault ==
  \/ Next
  \/ CleanupLocalThrows
  \/ WalkPartUnlinkThrows

SpecFault == Init /\ [][NextFault]_vars

\* ================================================================ claims
Done == pc = "done"

IsInline(p) == ~p.hasText /\ p.hasData
Decodable(d) == CanDecode(d) /\ CanOpen(ImageBytes(d))
DecodableIdx(ps) == {k \in 1..Len(ps) : IsInline(ps[k]) /\ Decodable(ps[k].data)}
FailingIdx(ps) == {k \in 1..Len(ps) : IsInline(ps[k]) /\ ~Decodable(ps[k].data)}
ImageAt(ps, k) == ImageOpen(ImageBytes(ps[k].data))
MinOf(S) == CHOOSE x \in S : \A y \in S : x <= y
MaxOf(S) == CHOOSE x \in S : \A y \in S : y <= x
DecodeMessage(d) ==
  IF d.isbytes \/ B64Valid(d.val) THEN "cannot identify image file" ELSE "Incorrect padding"

\* the text a walk over ps is expected to accumulate
RECURSIVE WalkText(_)
WalkText(ps) ==
  IF ps = << >> THEN << >>
  ELSE LET p == Head(ps)
           line == IF p.hasText THEN p.text \o <<"\n">>
                   ELSE IF IsInline(p) /\ ~Decodable(p.data)
                     THEN <<"Error processing image: ", DecodeMessage(p.data), "\n">>
                     ELSE << >>
       IN line \o WalkText(Tail(ps))

CallIdx(op) == {k \in 1..Len(calls) : calls[k].op = op}
WhoSeq(op) == LET c == SelectSeq(calls, LAMBDA x : x.op = op)
              IN [k \in 1..Len(c) |-> c[k].who]
IsPrefix(a, b) == Len(a) <= Len(b) /\ \A k \in 1..Len(a) : a[k] = b[k]

\* C1: when the call has finished, no temporary file it created (.jpg staging file
\* or .png decode file) still exists.
C1_NoTempFileRemains == Done => created \cap fs = {}

\* C2: when the call has finished, every reference a successful upload returned
\* has had a remote delete attempted.
C2_EveryUploadDeleted ==
  Done => \A k \in CallIdx("upload") :
            calls[k].ok => \E m \in CallIdx("delete") : m > k /\ calls[m].who = calls[k].who

\* C3: a response with no candidates, or whose first candidate has no content,
\* makes the call return no image and exactly the fixed invalid-response message.
C3_InvalidResponseMessage ==
  (Done /\ response.kind \in {"no_candidates", "no_content"})
    => /\ outcome = "returned"
       /\ result.image = None
       /\ result.text = <<"The model did not generate a valid response. Try again.">>

\* C4: whatever fails, cleanup of the local temporary files included, the call
\* ends by returning a pair; no exception escapes.
C4_NothingEscapes == Done => outcome = "returned"

\* C5: with an image absent, whatever the credential, the call makes no client, no
\* temporary file and no remote call, and returns (None, "Please upload both images.").
C5_MissingImage ==
  (person_image = None \/ clothing_image = None)
    => /\ client = None
       /\ calls = << >>
       /\ created = {}
       /\ Done => /\ outcome = "returned"
                  /\ result.image = None
                  /\ result.text = <<"Please upload both images.">>

C5_Witness ==
  /\ Done
  /\ person_image # None
  /\ clothing_image = None
  /\ api_key # << >>
  /\ result.text = <<"Please upload both images.">>

\* C6: with both images present and an empty credential, nothing is staged, no
\* upload or generation call is made, and the call returns (None, the
\* credential-missing message).
C6_MissingCredential ==
  (person_image # None /\ clothing_image # None /\ api_key = << >>)
    => /\ created = {}
       /\ CallIdx("upload") = {}
       /\ CallIdx("generate") = {}
       /\ Done => /\ outcome = "returned"
                  /\ result.image = None
                  /\ result.text =
                       <<"GEMINI_API_KEY not found. Please set it in your environment.">>

C6_Witness ==
  /\ Done
  /\ person_image # None
  /\ clothing_image # None
  /\ api_key = << >>
  /\ result.image = None

\* C7: when every part is a text part or a decodable inline image, the returned text
\* is the texts in part order, each followed by a newline, the image is non-null if
\* an image part is present, and one text part plus one image part give that image
\* and the text plus a newline.
C7_TextAndImageParts ==
  LET ps == response.parts IN
  (Done /\ response.kind = "parts"
        /\ \A k \in 1..Len(ps) : ps[k].hasText \/ k \in DecodableIdx(ps))
    => /\ outcome = "returned"
       /\ result.text = WalkText(ps)
       /\ \A k \in 1..Len(result.text) :
            result.text[k] # "Error processing image: "
       /\ DecodableIdx(ps) # {} => result.image # None
       /\ \A a, b \in 1..Len(ps) :
            (Len(ps) = 2 /\ ps[a].hasText /\ b \in DecodableIdx(ps))
              => /\ result.image = ImageAt(ps, b)
                 /\ result.text = ps[a].text \o <<"\n">>

C7_Witness ==
  /\ Done
  /\ outcome = "returned"
  /\ response.kind = "parts"
  /\ response.parts = << TextPart(<<"a">>),
                         InlinePart([isbytes |-> FALSE, val |-> "b64:png2"]) >>
  /\ result.image = "image2"

\* C8 as stated: with more than one decodable inline image, the returned image is
\* the one of the first of them in part order.
C8_FirstImageReturned ==
  LET ps == response.parts IN
  (Done /\ response.kind = "parts" /\ Cardinality(DecodableIdx(ps)) > 1)
    => result.image = ImageAt(ps, MinOf(DecodableIdx(ps)))

\* C8 amended: with more than one decodable inline image, the returned image is
\* the one of the last of them in part order.
C8_LastImageReturned ==
  LET ps == response.parts IN
  (Done /\ response.kind = "parts" /\ Cardinality(DecodableIdx(ps)) > 1)
    => /\ outcome = "returned"
       /\ result.image = ImageAt(ps, MaxOf(DecodableIdx(ps)))

C8_Witness ==
  LET ps == response.parts IN
  /\ Done
  /\ response.kind = "parts"
  /\ Cardinality(DecodableIdx(ps)) > 1
  /\ ImageAt(ps, MinOf(DecodableIdx(ps))) # ImageAt(ps, MaxOf(DecodableIdx(ps)))
  /\ result.image = ImageAt(ps, MaxOf(DecodableIdx(ps)))

\* C9: a part whose image decoding throws adds "Error processing image: <message>"
\* and a newline to the text and the walk goes on: later texts are appended in order,
\* a later decodable image sets the returned image, and the call returns by the
\* normal path, not the top-level handler.
C9_DecodeErrorLocal ==
  LET ps == response.parts IN
  (Done /\ response.kind = "parts" /\ FailingIdx(ps) # {})
    => /\ outcome = "returned"
       /\ ~ret.set
       /\ exc = NoExc
       /\ part_index = Len(ps) + 1
       /\ result.text = WalkText(ps)
       /\ \A k \in DecodableIdx(ps) :
            k > MinOf(FailingIdx(ps)) => result.image # None
       /\ DecodableIdx(ps) # {} => result.image = ImageAt(ps, MaxOf(DecodableIdx(ps)))

C9_Witness ==
  /\ Done
  /\ response.kind = "parts"
  /\ response.parts = << InlinePart([isbytes |-> FALSE, val |-> "!!"]),
                         TextPart(<<"b">>),
                         InlinePart([isbytes |-> TRUE, val |-> "png1"]) >>
  /\ result.image = "image1"
  /\ result.text = <<"Error processing image: ", "Incorrect padding", "\n", "b", "\n">>

\* C10: saves and uploads each go person then clothing, at most once each; the
\* generation call comes only after both uploads returned; once a save or an upload
\* throws, no later save, upload or generation call is made and the call returns
\* (None, an error string with the exception's message and type).
C10_StagingOrder ==
  /\ IsPrefix(WhoSeq("save"), <<"person", "clothing">>)
  /\ IsPrefix(WhoSeq("upload"), <<"person", "clothing">>)
  /\ \A g \in CallIdx("generate") :
       \A w \in {"person", "clothing"} :
         \E u \in CallIdx("upload") : u < g /\ calls[u].who = w /\ calls[u].ok
  /\ \A k \in CallIdx("save") \cup CallIdx("upload") :
       ~calls[k].ok
         => /\ \A m \in (k + 1)..Len(calls) :
                 calls[m].op \notin {"save", "upload", "generate"}
            /\ Done => /\ outcome = "returned"
                       /\ result.image = None
                       /\ Len(result.text) >= 4
                       /\ SubSeq(result.text, 1, 4) =
                            <<"Error: ", calls[k].err.msg, " | Type: ", calls[k].err.type>>

C10_Witness ==
  /\ Done
  /\ outcome = "returned"
  /\ \E k \in CallIdx("upload") : calls[k].who = "clothing" /\ ~calls[k].ok
  /\ \E k \in CallIdx("upload") : calls[k].who = "person" /\ calls[k].ok
  /\ result.image = None

====
